---- MODULE Spec2Model ----
(***************************************************************************)
(* Quran API CLI tool (quran-api.cjs): download of surahs from the         *)
(* Quran.com API into one JSON file per surah.                             *)
(*                                                                         *)
(* The model follows the async control flow of downloadSurah,              *)
(* downloadAllSurahs and buildSurahData (one action per await point), and  *)
(* the positional merge of the five responses into the ayahs array.        *)
(***************************************************************************)
EXTENDS Integers, Sequences, FiniteSets, TLC

(***************************************************************************)
(* Bounds of the model.                                                    *)
(***************************************************************************)
\* longest verse array a response carries
MaxVerses == 2
\* most chapters a ranged batch selects in one run
MaxRange == 3
\* longest generated name_simple
MaxName == 4

(***************************************************************************)
(* Program constants.                                                      *)
(***************************************************************************)
\* TRANSLATION_IDS.english
TRANSLATION_ID_ENGLISH == 20
\* TRANSLATION_IDS.indonesian
TRANSLATION_ID_INDONESIAN == 33
\* a translation resource the tool does not ask for
OtherResourceId == 131
\* number of surahs (default endAt of downloadAllSurahs)
SurahCount == 114
\* sleep between the fetches of buildSurahData, in ms
FetchDelay == 100
\* sleep after a saved surah in downloadAllSurahs, in ms
SurahDelay == 500
\* padStart width of the file name prefix
PadWidth == 3

(***************************************************************************)
(* JavaScript values.  A string-valued property that is absent reads as    *)
(* undefined; `x || d` yields d for every falsy x.                         *)
(***************************************************************************)
Undefined == "<undefined>"

Falsy(s) == s \in {Undefined, ""}

\* x || ''
OrEmpty(s) == IF Falsy(s) THEN "" ELSE s

\* a || b
OrElse(a, b) == IF Falsy(a) THEN b ELSE a

\* Array.prototype.find over a translation list: the first match, or none
RECURSIVE FindResource(_, _)
FindResource(ts, rid) ==
  IF ts = <<>> THEN [found |-> FALSE, text |-> Undefined]
  ELSE IF Head(ts).resource_id = rid
       THEN [found |-> TRUE, text |-> Head(ts).text]
       ELSE FindResource(Tail(ts), rid)

\* ayahs.reduce((sum, a) => sum + a.words[lang].length, 0)
RECURSIVE SumWords(_, _)
SumWords(ayahs, lang) ==
  IF ayahs = <<>> THEN 0
  ELSE Len(Head(ayahs).words[lang]) + SumWords(Tail(ayahs), lang)

(***************************************************************************)
(* The five endpoints of buildSurahData, in the order they are requested.  *)
(***************************************************************************)
Endpoints == <<"uthmani", "imlaei", "uthmani_tajweed", "verses_en", "verses_id">>

FetchCount == Len(Endpoints)

(***************************************************************************)
(* A response body as fetchJSON resolves it: JSON.parse of the body, which *)
(* is null for the body `null` and otherwise an object that may or may not *)
(* carry a verses array.                                                   *)
(***************************************************************************)
NullJson == [json |-> "null", has_verses |-> FALSE, verses |-> <<>>]

NoVerses == [json |-> "object", has_verses |-> FALSE, verses |-> <<>>]

WithVerses(vs) == [json |-> "object", has_verses |-> TRUE, verses |-> vs]

\* a response not yet received
NoResponse == [json |-> "pending", has_verses |-> FALSE, verses |-> <<>>]

\* reading data.verses throws a TypeError when data is null
ReadThrows(data) == data.json = "null"

\* data.verses || []
VersesOrEmpty(data) == IF data.has_verses THEN data.verses ELSE <<>>

(***************************************************************************)
(* The merge of buildSurahData (the loop over versesEn).                   *)
(***************************************************************************)
IsWord(w) == w.char_type_name = "word"

\* w.translation?.text
TranslationText(w) == IF w.translation.present THEN w.translation.text ELSE Undefined

\* w.translation?.language_name
TranslationLanguage(w) ==
  IF w.translation.present THEN w.translation.language_name ELSE Undefined

\* a words.id segment tagged "id" whatever its translation says
IdLanguageTagFixed(w) == "id"

\* the language tag of a words.id segment
IdLanguageTag(w) == IF TranslationLanguage(w) = "indonesian" THEN "id" ELSE "en"

WordEn(w) ==
  [position |-> w.position,
   text_code |-> OrElse(w.code_v1, w.text),
   audio_url |-> w.audio_url,
   translation |-> [text |-> OrEmpty(TranslationText(w)), language |-> "en"],
   transliteration |-> OrEmpty(w.transliteration)]

WordId(w) ==
  [position |-> w.position,
   text_code |-> OrElse(w.code_v1, w.text),
   audio_url |-> w.audio_url,
   translation |-> [text |-> OrEmpty(TranslationText(w)), language |-> IdLanguageTag(w)],
   transliteration |-> OrEmpty(w.transliteration)]

\* verse.words || []
WordsOrEmpty(verse) == IF verse.has_words THEN verse.words ELSE <<>>

\* (verse.words || []).filter(w => w.char_type_name === 'word')
WordTokens(verse) == SelectSeq(WordsOrEmpty(verse), IsWord)

\* wordsEn
WordsEn(verseEn) == [k \in 1..Len(WordTokens(verseEn)) |-> WordEn(WordTokens(verseEn)[k])]

\* wordsId
WordsId(verseId) == [k \in 1..Len(WordTokens(verseId)) |-> WordId(WordTokens(verseId)[k])]

\* verseEn.translations || []
TranslationsOrEmpty(verse) ==
  IF verse.has_translations THEN verse.translations ELSE <<>>

\* versesId[i] || verseEn
VerseIdAt(versesId, i, verseEn) == IF i <= Len(versesId) THEN versesId[i] ELSE verseEn

\* fragment?.field || '' for the fragment at index i of a text response
TextAt(verses, i, field) == IF i <= Len(verses) THEN OrEmpty(verses[i][field]) ELSE ""

\* a lookup that takes the English translation first and the Indonesian second
TranslationForByPosition(verseEn, rid) ==
  LET ts == TranslationsOrEmpty(verseEn)
      k == IF rid = TRANSLATION_ID_ENGLISH THEN 1 ELSE 2
  IN IF k <= Len(ts) THEN OrEmpty(ts[k].text) ELSE ""

\* translations.find(t => t.resource_id === rid)?.text || ''
TranslationFor(verseEn, rid) == OrEmpty(FindResource(TranslationsOrEmpty(verseEn), rid).text)

\* the composite key "chapter:verse"
VerseKey(c, n) == ToString(c) \o ":" \o ToString(n)

\* a verse_key put together from the verse's chapter and number
AyahVerseKeyDerived(verseEn) == VerseKey(verseEn.id \div 1000, verseEn.verse_number)

\* verse_key of the ayah pushed for verseEn
AyahVerseKey(verseEn) == verseEn.verse_key

\* one pass of the loop body: the ayah pushed for index i
BuildAyah(i, versesEn, versesId, uthmaniVerses, imlaeiVerses, tajweedVerses) ==
  LET verseEn == versesEn[i]
      verseId == VerseIdAt(versesId, i, verseEn)
  IN [id |-> verseEn.id,
      verse_number |-> verseEn.verse_number,
      verse_key |-> AyahVerseKey(verseEn),
      juz_number |-> verseEn.juz_number,
      hizb_number |-> verseEn.hizb_number,
      rub_el_hizb_number |-> verseEn.rub_el_hizb_number,
      manzil_number |-> verseEn.manzil_number,
      ruku_number |-> verseEn.ruku_number,
      page_number |-> verseEn.page_number,
      sajdah_number |-> verseEn.sajdah_number,
      text_arabic_simple |-> TextAt(imlaeiVerses, i, "text_imlaei"),
      text_arabic_uthmani |-> TextAt(uthmaniVerses, i, "text_uthmani"),
      text_arabic_tajweed |-> TextAt(tajweedVerses, i, "text_uthmani_tajweed"),
      words |-> [en |-> WordsEn(verseEn), id |-> WordsId(verseId)],
      translations |-> [en |-> TranslationFor(verseEn, TRANSLATION_ID_ENGLISH),
                        id |-> TranslationFor(verseEn, TRANSLATION_ID_INDONESIAN)]]

\* the ayahs array built from the five responses (none of them null)
BuildAyahs(r) ==
  LET versesEn == VersesOrEmpty(r["verses_en"])
      versesId == VersesOrEmpty(r["verses_id"])
      uthmaniVerses == VersesOrEmpty(r["uthmani"])
      imlaeiVerses == VersesOrEmpty(r["imlaei"])
      tajweedVerses == VersesOrEmpty(r["uthmani_tajweed"])
  IN [i \in 1..Len(versesEn) |->
        BuildAyah(i, versesEn, versesId, uthmaniVerses, imlaeiVerses, tajweedVerses)]

\* the synchronous tail of buildSurahData throws when a response is null
MergeThrows(r) == \E e \in DOMAIN r : ReadThrows(r[e])

\* the object buildSurahData returns
SurahDocument(ch, r) ==
  LET ayahs == BuildAyahs(r)
  IN [meta |-> [source |-> "Quran.com API v4",
                translation_ids |-> [indonesian |-> TRANSLATION_ID_INDONESIAN,
                                     english |-> TRANSLATION_ID_ENGLISH]],
      surah |-> ch,
      ayahs |-> ayahs,
      stats |-> [total_ayahs |-> Len(ayahs),
                 total_words_en |-> SumWords(ayahs, "en"),
                 total_words_id |-> SumWords(ayahs, "id")]]

NoDocument ==
  [meta |-> [source |-> "none",
             translation_ids |-> [indonesian |-> TRANSLATION_ID_INDONESIAN,
                                  english |-> TRANSLATION_ID_ENGLISH]],
   surah |-> [id |-> 0, name_simple |-> <<>>, verses_count |-> 0],
   ayahs |-> <<>>,
   stats |-> [total_ayahs |-> 0, total_words_en |-> 0, total_words_id |-> 0]]

(***************************************************************************)
(* File names: String(id).padStart(3, '0') + '-' + sanitizeFilename(name)  *)
(* + '.json'.  Strings are sequences of one-character strings.             *)
(***************************************************************************)
UpperCase ==
  <<"A", "B", "C", "D", "E", "F", "G", "H", "I", "J", "K", "L", "M",
    "N", "O", "P", "Q", "R", "S", "T", "U", "V", "W", "X", "Y", "Z">>

LowerCase ==
  <<"a", "b", "c", "d", "e", "f", "g", "h", "i", "j", "k", "l", "m",
    "n", "o", "p", "q", "r", "s", "t", "u", "v", "w", "x", "y", "z">>

DigitChars == <<"0", "1", "2", "3", "4", "5", "6", "7", "8", "9">>

Range(s) == {s[i] : i \in 1..Len(s)}

\* String.prototype.toLowerCase, one character
ToLowerChar(c) ==
  IF c \in Range(UpperCase)
  THEN LowerCase[CHOOSE i \in 1..Len(UpperCase) : UpperCase[i] = c]
  ELSE c

\* the class [a-z0-9]
IsAlnum(c) == c \in Range(LowerCase) \cup Range(DigitChars)

\* .replace(/[^a-z0-9]/g, '-')
HyphenateChar(c) == IF IsAlnum(c) THEN c ELSE "-"

\* hyphens left as they are
KeepHyphens(s) == s

\* .replace(/-+/g, '-')
RECURSIVE CollapseHyphens(_)
CollapseHyphens(s) ==
  IF Len(s) <= 1 THEN s
  ELSE IF s[1] = "-" /\ s[2] = "-" THEN CollapseHyphens(Tail(s))
       ELSE <<s[1]>> \o CollapseHyphens(Tail(s))

\* .replace(/^-|-$/g, ''): one hyphen at the start and one at the end
TrimHyphens(s) ==
  LET a == IF s # <<>> /\ s[1] = "-" THEN Tail(s) ELSE s
  IN IF a # <<>> /\ a[Len(a)] = "-" THEN SubSeq(a, 1, Len(a) - 1) ELSE a

sanitizeFilename(name) ==
  TrimHyphens(CollapseHyphens([i \in 1..Len(name) |-> HyphenateChar(ToLowerChar(name[i]))]))

\* String(n) for n >= 0
RECURSIVE DecimalString(_)
DecimalString(n) ==
  IF n < 10 THEN <<DigitChars[n + 1]>>
  ELSE DecimalString(n \div 10) \o <<DigitChars[(n % 10) + 1]>>

\* s.padStart(width, '0')
RECURSIVE PadStart(_, _)
PadStart(s, width) == IF Len(s) >= width THEN s ELSE PadStart(<<"0">> \o s, width)

\* name_simple of the chapters the listings of this model carry
AlFatihah == <<"A", "l", "-", "F", "a", "t", "i", "h", "a", "h">>

AliImran == <<"A", "l", "i", " ", "'", "I", "m", "r", "a", "n">>

YaSin == <<"Y", "a", "-", "S", "i", "n">>

AnNas == <<"A", "n", "-", "N", "a", "s">>

SimpleNames == {AlFatihah, AliImran, YaSin, AnNas}

\* characters of generated names: a capital, a small letter, a digit, a hyphen,
\* a blank
NameChars == {"A", "b", "7", "-", " "}

\* every name_simple of at most MaxName of these characters
BoundedNames == UNION {[1..n -> NameChars] : n \in 0..MaxName}

\* sanitizeFilename of the names of the listings, computed once
Slug == [name \in SimpleNames |-> sanitizeFilename(name)]

\* sanitizeFilename(chapter.name_simple)
SlugOf(name) == IF name \in SimpleNames THEN Slug[name] ELSE sanitizeFilename(name)

Filename(ch) ==
  PadStart(DecimalString(ch.id), PadWidth) \o <<"-">> \o SlugOf(ch.name_simple)
    \o <<".", "j", "s", "o", "n">>

(***************************************************************************)
(* The remote API: what /chapters and the five verse endpoints may answer. *)
(***************************************************************************)
NameOf(id) ==
  IF id = 1 THEN AlFatihah
  ELSE IF id = SurahCount THEN AnNas
  ELSE IF id % 2 = 1 THEN AliImran ELSE YaSin

Chapter(id) == [id |-> id, name_simple |-> NameOf(id), verses_count |-> MaxVerses]

NoChapter == [id |-> 0, name_simple |-> <<>>, verses_count |-> 0]

\* the listing of the 114 surahs, ascending
CanonicalListing == [i \in 1..SurahCount |-> Chapter(i)]

\* listings a compatible API may return: not sorted, with gaps, with a repeated entry
ShuffledListing == <<Chapter(3), Chapter(1), Chapter(2)>>

SparseListing == <<Chapter(2), Chapter(113)>>

RepeatedListing == <<Chapter(2), Chapter(2)>>

Listings == {CanonicalListing, ShuffledListing, SparseListing, RepeatedListing}

\* the body of /chapters as fetchJSON resolves it
NoChaptersData == [json |-> "pending", has_chapters |-> FALSE, chapters |-> <<>>]

ChaptersData(l) == [json |-> "object", has_chapters |-> TRUE, chapters |-> l]

ChaptersReplies ==
  {ChaptersData(l) : l \in Listings}
    \cup {[json |-> "object", has_chapters |-> FALSE, chapters |-> <<>>],
          [json |-> "null", has_chapters |-> FALSE, chapters |-> <<>>]}

\* a verse of one of the three text endpoints
TextVerse(field, c, n, text) ==
  [x \in {"verse_key", field} |-> IF x = field THEN text ELSE VerseKey(c, n)]

TextVerses(field, c, k) ==
  [n \in 1..k |-> TextVerse(field, c, n, field \o "-" \o ToString(n))]

\* a token of a verse: a word, or the end-of-ayah marker
Token(pos, type, code, text, tr) ==
  [position |-> pos, char_type_name |-> type, code_v1 |-> code, text |-> text,
   audio_url |-> "wbw/" \o ToString(pos) \o ".mp3",
   translation |-> tr, transliteration |-> "tl-" \o ToString(pos)]

NoTranslation == [present |-> FALSE, text |-> Undefined, language_name |-> Undefined]

WordTranslation(text, lang) == [present |-> TRUE, text |-> text, language_name |-> lang]

\* the tokens of a verse as the API sends them for a word language
Tokens(lang) ==
  <<Token(1, "word", "c1", "t1", WordTranslation("w1-" \o lang, lang)),
    Token(2, "end", "c2", "t2", WordTranslation("(1)", lang))>>

\* tokens with gaps: no code_v1, no translation object, an empty translation text
RaggedTokens(lang) ==
  <<Token(1, "end", "c1", "t1", WordTranslation("(0)", lang)),
    Token(2, "word", Undefined, "t2", NoTranslation),
    Token(3, "word", "c3", Undefined, WordTranslation("", lang))>>

Translation(rid, text) == [resource_id |-> rid, text |-> text]

BothTranslations ==
  <<Translation(TRANSLATION_ID_ENGLISH, "Saheeh"),
    Translation(TRANSLATION_ID_INDONESIAN, "Kemenag")>>

\* a verse of /verses/by_chapter
WordVerse(c, n, lang) ==
  [id |-> 1000 * c + n, verse_number |-> n, verse_key |-> VerseKey(c, n),
   juz_number |-> 1, hizb_number |-> 1, rub_el_hizb_number |-> 1, manzil_number |-> 1,
   ruku_number |-> 1, page_number |-> 1, sajdah_number |-> Undefined,
   has_words |-> TRUE, words |-> Tokens(lang),
   has_translations |-> TRUE, translations |-> BothTranslations]

WordVerses(c, k, lang) == [n \in 1..k |-> WordVerse(c, n, lang)]

\* the complete answer of an endpoint for a chapter
CanonicalReply(e, ch) ==
  IF e = "uthmani" THEN WithVerses(TextVerses("text_uthmani", ch.id, ch.verses_count))
  ELSE IF e = "imlaei" THEN WithVerses(TextVerses("text_imlaei", ch.id, ch.verses_count))
  ELSE IF e = "uthmani_tajweed"
       THEN WithVerses(TextVerses("text_uthmani_tajweed", ch.id, ch.verses_count))
  ELSE IF e = "verses_en" THEN WithVerses(WordVerses(ch.id, ch.verses_count, "english"))
  ELSE WithVerses(WordVerses(ch.id, ch.verses_count, "indonesian"))

\* the answers the download run is checked against: complete ones, an object
\* without verses, a null body, and a verses_id array one verse short
Replies(e, ch) ==
  {CanonicalReply(e, ch)}
    \cup (IF e = "uthmani" THEN {NoVerses} ELSE {})
    \cup (IF e = "uthmani_tajweed" THEN {NullJson} ELSE {})
    \cup (IF e = "verses_id"
          THEN {WithVerses(WordVerses(ch.id, ch.verses_count - 1, "indonesian"))}
          ELSE {})

(***************************************************************************)
(* parseArgs.  A command line is a sequence of tokens.                     *)
(***************************************************************************)
DEFAULT_BASE_URL == "https://api.quran.com/api/v4"

\* parseInt of a token that is not a number, or of undefined
NaN == -1

\* the tokens that start with a hyphen
OptionTokens ==
  {"--base-url", "--output", "-o", "--surah", "-s", "--all", "--from", "--to", "--path",
   "--param", "--language", "--help", "-h"}

\* parseInt(t, 10) of a token: a decimal numeral of 0..SurahCount + 2, or NaN
ParseInt(t) ==
  IF \E n \in 0..(SurahCount + 2) : ToString(n) = t
  THEN CHOOSE n \in 0..(SurahCount + 2) : ToString(n) = t
  ELSE NaN

\* null where a number may stand (surah: null)
Null == -2

\* a number in a condition: 0, NaN and null are falsy
Truthy(n) == n \notin {0, NaN, Null}

\* the record parseArgs starts from (command: null, surah: null)
DefaultOptions ==
  [command |-> Undefined, baseUrl |-> DEFAULT_BASE_URL, output |-> "./data",
   surah |-> Null, all |-> FALSE, from |-> 1, to |-> SurahCount, path |-> Undefined]

\* args[++i]
ArgAt(args, i) == IF i <= Len(args) THEN args[i] ELSE Undefined

\* the while loop of parseArgs from position i on
RECURSIVE ParseLoop(_, _, _)
ParseLoop(args, i, parsed) ==
  IF i > Len(args) THEN parsed
  ELSE LET arg == args[i]
           value == ArgAt(args, i + 1)
       IN IF arg = "--base-url"
          THEN ParseLoop(args, i + 2, [parsed EXCEPT !.baseUrl = value])
          ELSE IF arg \in {"--output", "-o"}
          THEN ParseLoop(args, i + 2, [parsed EXCEPT !.output = value])
          ELSE IF arg \in {"--surah", "-s"}
          THEN ParseLoop(args, i + 2, [parsed EXCEPT !.surah = ParseInt(value)])
          ELSE IF arg = "--all"
          THEN ParseLoop(args, i + 1, [parsed EXCEPT !.all = TRUE])
          ELSE IF arg = "--from"
          THEN ParseLoop(args, i + 2, [parsed EXCEPT !.from = ParseInt(value)])
          ELSE IF arg = "--to"
          THEN ParseLoop(args, i + 2, [parsed EXCEPT !.to = ParseInt(value)])
          ELSE IF arg = "--path"
          THEN ParseLoop(args, i + 2, [parsed EXCEPT !.path = value])
          ELSE IF arg \in {"--param", "--language"}
          THEN ParseLoop(args, i + 2, parsed)
          ELSE IF arg \in {"--help", "-h"}
          THEN ParseLoop(args, i + 1, [parsed EXCEPT !.command = "help"])
          ELSE ParseLoop(args, i + 1, parsed)

parseArgs(args) ==
  IF args # <<>> /\ args[1] \notin OptionTokens
  THEN ParseLoop(args, 2, [DefaultOptions EXCEPT !.command = args[1]])
  ELSE ParseLoop(args, 1, DefaultOptions)

(***************************************************************************)
(* State of one run of downloadSurah or downloadAllSurahs.                 *)
(***************************************************************************)
VARIABLES
  mode,          \* "single": downloadSurah, "batch": downloadAllSurahs
  surahId,       \* argument of downloadSurah
  startFrom,     \* arguments of downloadAllSurahs
  endAt,
  pc,            \* the await the run is suspended at, or how it ended
  chaptersData,  \* the resolved value of fetchChapters
  chapters,      \* downloadAllSurahs: the filtered chapters
  idx,           \* downloadAllSurahs: position of the for-of loop in chapters
  chapter,       \* the chapter buildSurahData is running for
  fetchNo,       \* buildSurahData: number of the fetch last issued (1..5)
  inflight,      \* HTTP requests issued and not yet settled
  timer,         \* duration of the pending sleep in ms, 0 when none
  resp,          \* buildSurahData: the responses received so far
  surahData,     \* the document buildSurahData returned
  files,         \* the output directory: file name -> document written
  error,         \* the error the call rejected with, "" when none
  reported,      \* ids of the chapters whose error the catch block printed
  saved,         \* ids of the chapters whose file was written, in order
  attempted,     \* ids of the chapters buildSurahData was called for, in order
  requests,      \* endpoints requested so far in the current buildSurahData call
  listFetches,   \* number of /chapters requests issued
  faults,        \* ids of the chapters whose processing met a failure (history)
  argv,          \* process.argv.slice(2)
  options,       \* main: the value of parseArgs
  exitCode,      \* exit status of the process, once pc = "exited"
  message        \* what main, or the runtime for it, printed last

\* what the download functions never change: their arguments and main's state
inputs == <<mode, surahId, startFrom, endAt, argv, options, exitCode, message>>

\* the state of the functions main calls
download ==
  <<chaptersData, chapters, idx, chapter, fetchNo, inflight, timer, resp, surahData,
    files, error, reported, saved, attempted, requests, listFetches, faults>>

control == <<pc, chapter, idx, fetchNo, inflight, timer, resp, surahData, attempted, requests>>

vars ==
  <<mode, surahId, startFrom, endAt, pc, chaptersData, chapters, idx, chapter, fetchNo,
    inflight, timer, resp, surahData, files, error, reported, saved, attempted, requests,
    listFetches, faults, argv, options, exitCode, message>>

NoResponses == [e \in Range(Endpoints) |-> NoResponse]

ChaptersRequest == [endpoint |-> "chapters", chapter |-> 0]

\* the request of fetch number n of buildSurahData for chapter ch
Request(n, ch) == [endpoint |-> Endpoints[n], chapter |-> ch.id]

\* a fetch step that does not await: it issues the next fetch along with its own
FetchStepPair(n, ch) ==
  {Request(n, ch)} \cup (IF n < FetchCount THEN {Request(n + 1, ch)} ELSE {})

\* the requests the n-th fetch step of buildSurahData puts in flight
FetchStep(n, ch) == {Request(n, ch)}

\* ids a single download is asked for: the 114 surahs and ids around them
SurahIds == 0..(SurahCount + 2)

RangeStarts == {0, 1, 2, SurahCount - 1}

\* the ranges a batch is asked for: at most MaxRange ids wide, also empty
Ranges ==
  {r \in RangeStarts \X (-1..(SurahCount + MaxRange)) : r[2] - r[1] \in -1..(MaxRange - 1)}

\* the function is called with its arguments, not through main
CalledDirectly ==
  /\ argv = <<>>
  /\ options = DefaultOptions
  /\ exitCode = 0
  /\ message = ""

Init ==
  /\ mode \in {"single", "batch"}
  /\ \/ mode = "single" /\ surahId \in SurahIds /\ startFrom = 1 /\ endAt = SurahCount
     \/ /\ mode = "batch" /\ surahId = 0
        /\ \E r \in Ranges : startFrom = r[1] /\ endAt = r[2]
  /\ pc = "start"
  /\ chaptersData = NoChaptersData
  /\ chapters = <<>>
  /\ idx = 0
  /\ chapter = NoChapter
  /\ fetchNo = 0
  /\ inflight = {}
  /\ timer = 0
  /\ resp = NoResponses
  /\ surahData = NoDocument
  /\ files = <<>>
  /\ error = ""
  /\ reported = <<>>
  /\ saved = <<>>
  /\ attempted = <<>>
  /\ requests = <<>>
  /\ listFetches = 0
  /\ faults = <<>>
  /\ CalledDirectly

(***************************************************************************)
(* fetchChapters: the first await of downloadSurah and downloadAllSurahs.  *)
(***************************************************************************)
fetchChapters ==
  /\ pc = "start"
  /\ pc' = "chapters"
  /\ inflight' = {ChaptersRequest}
  /\ listFetches' = listFetches + 1
  /\ UNCHANGED <<inputs, chaptersData, chapters, idx, chapter, fetchNo, timer, resp,
                 surahData, files, error, reported, saved, attempted, requests, faults>>

\* the call rejects: nothing below the await runs
Reject(kind) ==
  /\ error' = kind
  /\ pc' = "raised"
  /\ inflight' = {}
  /\ timer' = 0
  /\ UNCHANGED <<chapter, idx, fetchNo, resp, surahData, attempted, requests, reported>>

\* buildSurahData(baseUrl, ch) is called: it runs up to its first await
StartChapter(ch, i) ==
  /\ chapter' = ch
  /\ idx' = i
  /\ fetchNo' = 1
  /\ inflight' = FetchStep(1, ch)
  /\ requests' = <<Endpoints[1]>>
  /\ attempted' = Append(attempted, ch.id)
  /\ resp' = NoResponses
  /\ surahData' = NoDocument
  /\ timer' = 0
  /\ pc' = "await"

\* the for-of loop is exhausted: "Download complete!"
Complete(i) ==
  /\ chapter' = NoChapter
  /\ idx' = i
  /\ fetchNo' = 0
  /\ inflight' = {}
  /\ requests' = <<>>
  /\ attempted' = attempted
  /\ resp' = NoResponses
  /\ surahData' = NoDocument
  /\ timer' = 0
  /\ pc' = "done"

\* the for-of loop takes element i of chs, or ends
NextChapter(chs, i) == IF i <= Len(chs) THEN StartChapter(chs[i], i) ELSE Complete(i)

\* a catch block that prints the error and leaves the loop
CatchAndBreak ==
  /\ reported' = Append(reported, chapter.id)
  /\ error' = error
  /\ Complete(idx + 1)

\* a catch block that prints the error and throws it again
CatchAndRethrow ==
  /\ reported' = Append(reported, chapter.id)
  /\ error' = "http"
  /\ pc' = "raised"
  /\ inflight' = {}
  /\ timer' = 0
  /\ UNCHANGED <<chapter, idx, fetchNo, resp, surahData, attempted, requests>>

\* the catch block of downloadAllSurahs: print the error, go on with the loop
CatchAndContinue ==
  /\ reported' = Append(reported, chapter.id)
  /\ error' = error
  /\ NextChapter(chapters, idx + 1)

\* an exception thrown while a chapter is processed
Throw(kind) == IF mode = "batch" THEN CatchAndContinue ELSE Reject(kind)

\* the /chapters request fails, or its body is not JSON
ChaptersRejected ==
  /\ pc = "chapters"
  /\ Reject("http")
  /\ UNCHANGED <<inputs, chaptersData, chapters, files, saved, listFetches, faults>>

\* chaptersData.chapters.find / .filter on a body without a chapters array
ChaptersMalformedWith(data) ==
  /\ pc = "chapters"
  /\ data.json = "null" \/ ~data.has_chapters
  /\ chaptersData' = data
  /\ Reject("type_error")
  /\ UNCHANGED <<inputs, chapters, files, saved, listFetches, faults>>

\* a lookup that takes the id for an index of the array: chapters[id]
FindChapterByIndex(list, id) ==
  IF id + 1 \in 1..Len(list) THEN <<list[id + 1]>> ELSE <<>>

\* chaptersData.chapters.find(c => c.id === surahId)
FindChapter(list, id) == SelectSeq(list, LAMBDA c : c.id = id)

\* a filter that leaves the upper end out: c.id < endAt
FilterChaptersHalfOpen(list, from, to) == SelectSeq(list, LAMBDA c : c.id >= from /\ c.id < to)

\* chaptersData.chapters.filter(c => c.id >= startFrom && c.id <= endAt)
FilterChapters(list, from, to) == SelectSeq(list, LAMBDA c : c.id >= from /\ c.id <= to)

\* downloadSurah: no chapter of the listing has the id
SurahNotFoundWith(data) ==
  /\ pc = "chapters" /\ mode = "single"
  /\ data.json = "object" /\ data.has_chapters
  /\ FindChapter(data.chapters, surahId) = <<>>
  /\ chaptersData' = data
  /\ Reject("not_found")
  /\ UNCHANGED <<inputs, chapters, files, saved, listFetches, faults>>

\* downloadSurah: the chapter is found and buildSurahData is called
SurahFoundWith(data) ==
  /\ pc = "chapters" /\ mode = "single"
  /\ data.json = "object" /\ data.has_chapters
  /\ FindChapter(data.chapters, surahId) # <<>>
  /\ chaptersData' = data
  /\ StartChapter(Head(FindChapter(data.chapters, surahId)), 0)
  /\ UNCHANGED <<inputs, chapters, files, error, reported, saved, listFetches, faults>>

\* downloadAllSurahs: the listing is filtered and the loop starts
RangeSelectedWith(data) ==
  /\ pc = "chapters" /\ mode = "batch"
  /\ data.json = "object" /\ data.has_chapters
  /\ Len(FilterChapters(data.chapters, startFrom, endAt)) <= MaxRange
  /\ chaptersData' = data
  /\ chapters' = FilterChapters(data.chapters, startFrom, endAt)
  /\ NextChapter(chapters', 1)
  /\ UNCHANGED <<inputs, files, error, reported, saved, listFetches, faults>>

ChaptersMalformed == \E data \in ChaptersReplies : ChaptersMalformedWith(data)

SurahNotFound == \E data \in ChaptersReplies : SurahNotFoundWith(data)

SurahFound == \E data \in ChaptersReplies : SurahFoundWith(data)

RangeSelected == \E data \in ChaptersReplies : RangeSelectedWith(data)

(***************************************************************************)
(* buildSurahData: five fetches, each followed by sleep(100), then the     *)
(* merge.                                                                  *)
(***************************************************************************)
\* the pending fetch resolves with a parsed body; sleep(100) starts
FetchResolved ==
  /\ pc = "await"
  /\ \E reply \in Replies(Endpoints[fetchNo], chapter) :
       resp' = [resp EXCEPT ![Endpoints[fetchNo]] = reply]
  /\ inflight' = {}
  /\ timer' = FetchDelay
  /\ pc' = "sleep"
  /\ UNCHANGED <<inputs, chaptersData, chapters, idx, chapter, fetchNo, surahData, files,
                 error, reported, saved, attempted, requests, listFetches, faults>>

\* a fetch that is issued again when it rejects
FetchRetried ==
  /\ pc = "await"
  /\ requests' = Append(requests, Endpoints[fetchNo])
  /\ faults' = Append(faults, chapter.id)
  /\ UNCHANGED <<inputs, pc, chaptersData, chapters, idx, chapter, fetchNo, inflight,
                 timer, resp, surahData, files, error, reported, saved, attempted,
                 listFetches>>

\* the pending fetch rejects (transport error, or a body that is not JSON)
FetchRejected ==
  /\ pc = "await"
  /\ Throw("http")
  /\ faults' = Append(faults, chapter.id)
  /\ UNCHANGED <<inputs, chaptersData, chapters, files, saved, listFetches>>

\* a buildSurahData that merges before the last fetch
AfterSleepEarly(n) == IF n < FetchCount - 1 THEN "fetch" ELSE "merge"

\* what follows sleep(100) number n: the next fetch, or the merge
AfterSleep(n) == IF n < FetchCount THEN "fetch" ELSE "merge"

\* sleep(100) is over and the next fetch is issued
NextFetch ==
  /\ pc = "sleep"
  /\ AfterSleep(fetchNo) = "fetch"
  /\ fetchNo' = fetchNo + 1
  /\ inflight' = FetchStep(fetchNo + 1, chapter)
  /\ requests' = Append(requests, Endpoints[fetchNo + 1])
  /\ timer' = 0
  /\ pc' = "await"
  /\ UNCHANGED <<inputs, chaptersData, chapters, idx, chapter, resp, surahData, files,
                 error, reported, saved, attempted, listFetches, faults>>

\* the last sleep(100) is over: the ayahs are merged and the document returned,
\* or reading a null body throws
BuildDocument ==
  /\ pc = "sleep"
  /\ AfterSleep(fetchNo) = "merge"
  /\ IF MergeThrows(resp)
     THEN Throw("type_error") /\ faults' = Append(faults, chapter.id)
     ELSE /\ surahData' = SurahDocument(chapter, resp)
          /\ pc' = "built"
          /\ timer' = 0
          /\ UNCHANGED <<chapter, idx, fetchNo, inflight, resp, attempted, requests,
                         error, reported, faults>>
  /\ UNCHANGED <<inputs, chaptersData, chapters, files, saved, listFetches>>

(***************************************************************************)
(* After `await buildSurahData`: the file is written.                      *)
(***************************************************************************)
\* fs.writeFileSync(filepath, JSON.stringify(surahData, null, 2), 'utf8')
WriteFile(dir, name, data) ==
  [f \in DOMAIN dir \cup {name} |-> IF f = name THEN data ELSE dir[f]]

\* the file is written; downloadSurah returns, downloadAllSurahs sleeps 500 ms
SaveSurah ==
  /\ pc = "built"
  /\ files' = WriteFile(files, Filename(chapter), surahData)
  /\ saved' = Append(saved, chapter.id)
  /\ IF mode = "batch" THEN pc' = "pause" /\ timer' = SurahDelay
                       ELSE pc' = "done" /\ timer' = 0
  /\ UNCHANGED <<inputs, chaptersData, chapters, idx, chapter, fetchNo, inflight, resp,
                 surahData, error, reported, attempted, requests, listFetches, faults>>

\* fs.writeFileSync throws
SaveFails ==
  /\ pc = "built"
  /\ Throw("write")
  /\ faults' = Append(faults, chapter.id)
  /\ UNCHANGED <<inputs, chaptersData, chapters, files, saved, listFetches>>

\* downloadAllSurahs: sleep(500) is over and the loop goes on
NextSurah ==
  /\ pc = "pause"
  /\ NextChapter(chapters, idx + 1)
  /\ UNCHANGED <<inputs, chaptersData, chapters, files, error, reported, saved,
                 listFetches, faults>>

Next ==
  \/ fetchChapters
  \/ ChaptersRejected
  \/ ChaptersMalformed
  \/ SurahNotFound
  \/ SurahFound
  \/ RangeSelected
  \/ FetchResolved
  \/ FetchRejected
  \/ NextFetch
  \/ BuildDocument
  \/ SaveSurah
  \/ SaveFails
  \/ NextSurah

Spec == Init /\ [][Next]_vars

(***************************************************************************)
(* main: the command line is parsed, the output directory made, and the    *)
(* command run inside try/catch.  The process ends when main has returned  *)
(* and nothing is pending, or with process.exit(1) in the catch block.     *)
(***************************************************************************)
\* the process ends with a status, msg being the last thing printed
Exit(code, msg) ==
  /\ pc' = "exited"
  /\ exitCode' = code
  /\ message' = msg

\* an exception thrown before the try block rejects the promise of main(), which
\* nothing handles: the runtime reports it and ends with status 1, and a runtime
\* older than Node 15 warns and ends with status 0
Unhandled ==
  /\ \E code \in {0, 1} : Exit(code, "unhandled")
  /\ UNCHANGED <<mode, surahId, startFrom, endAt>>

\* the switch statement: a function is called, or a line is printed
Dispatch(parsed) ==
  IF parsed.command = "help" THEN
    Exit(0, "help") /\ UNCHANGED <<mode, surahId, startFrom, endAt>>
  ELSE IF parsed.command = "list" THEN
    /\ mode' = "list" /\ pc' = "start"
    /\ UNCHANGED <<surahId, startFrom, endAt, exitCode, message>>
  ELSE IF parsed.command = "translations" THEN
    /\ mode' = "translations" /\ pc' = "call"
    /\ UNCHANGED <<surahId, startFrom, endAt, exitCode, message>>
  ELSE IF parsed.command = "download" THEN
    IF Truthy(parsed.surah) THEN
      /\ mode' = "single" /\ surahId' = parsed.surah /\ pc' = "start"
      /\ UNCHANGED <<startFrom, endAt, exitCode, message>>
    ELSE IF parsed.all \/ Truthy(parsed.from) \/ Truthy(parsed.to) THEN
      /\ mode' = "batch" /\ startFrom' = parsed.from /\ endAt' = parsed.to /\ pc' = "start"
      /\ UNCHANGED <<surahId, exitCode, message>>
    ELSE
      Exit(0, "specify_surah_or_all") /\ UNCHANGED <<mode, surahId, startFrom, endAt>>
  ELSE IF parsed.command = "fetch" THEN
    IF Falsy(parsed.path) THEN
      Exit(0, "specify_path") /\ UNCHANGED <<mode, surahId, startFrom, endAt>>
    ELSE
      /\ mode' = "fetch" /\ pc' = "call"
      /\ UNCHANGED <<surahId, startFrom, endAt, exitCode, message>>
  ELSE
    Exit(0, "unknown_command") /\ UNCHANGED <<mode, surahId, startFrom, endAt>>

\* main up to its first await
main ==
  /\ pc = "main"
  /\ IF argv = <<>>
     THEN /\ options' = options
          /\ Exit(0, "help")
          /\ UNCHANGED <<mode, surahId, startFrom, endAt>>
     ELSE /\ options' = parseArgs(argv)
          /\ IF options'.baseUrl = Undefined \/ options'.output = Undefined
             THEN Unhandled
             ELSE \/ Unhandled          \* fs.mkdirSync throws
                  \/ Dispatch(options')
  /\ UNCHANGED <<argv, download>>

\* listSurahs: the listing is printed
ListPrinted ==
  /\ pc = "chapters" /\ mode = "list"
  /\ \E data \in ChaptersReplies :
       /\ data.json = "object" /\ data.has_chapters
       /\ chaptersData' = data
  /\ pc' = "done"
  /\ inflight' = {}
  /\ UNCHANGED <<inputs, chapters, idx, chapter, fetchNo, timer, resp, surahData, files,
                 error, reported, saved, attempted, requests, listFetches, faults>>

\* the request of listTranslations or fetchCustom
OtherRequest == [endpoint |-> mode, chapter |-> 0]

\* listTranslations, fetchCustom: the one fetch is issued
fetchOther ==
  /\ pc = "call"
  /\ pc' = "response"
  /\ inflight' = {OtherRequest}
  /\ UNCHANGED <<inputs, chaptersData, chapters, idx, chapter, fetchNo, timer, resp,
                 surahData, files, error, reported, saved, attempted, requests,
                 listFetches, faults>>

\* the fetch resolves and the body is printed; listTranslations reads
\* data.translations, which throws on a null body
OtherResolved ==
  /\ pc = "response"
  /\ \E json \in {"object", "null"} :
       IF json = "null" /\ mode = "translations"
       THEN Reject("type_error")
       ELSE /\ pc' = "done"
            /\ inflight' = {}
            /\ UNCHANGED <<chapter, idx, fetchNo, timer, resp, surahData, attempted,
                           requests, reported, error>>
  /\ UNCHANGED <<inputs, chaptersData, chapters, files, saved, listFetches, faults>>

OtherRejected ==
  /\ pc = "response"
  /\ Reject("http")
  /\ UNCHANGED <<inputs, chaptersData, chapters, files, saved, listFetches, faults>>

\* a catch block that prints the error and lets main return
mainCatchesAndReturns ==
  /\ pc = "raised"
  /\ Exit(0, "caught")
  /\ UNCHANGED <<mode, surahId, startFrom, endAt, argv, options, download>>

\* the catch block of main: the message is printed, then process.exit(1)
mainCatches ==
  /\ pc = "raised"
  /\ Exit(1, "caught")
  /\ UNCHANGED <<mode, surahId, startFrom, endAt, argv, options, download>>

\* the awaited function returned: main returns and the process ends
mainReturns ==
  /\ pc = "done"
  /\ Exit(0, message)
  /\ UNCHANGED <<mode, surahId, startFrom, endAt, argv, options, download>>

\* ids and bounds given on the command lines of the model
SurahTokens == {"0", "1", "2", "114", "115", "abc"}

FromTokens == {"0", "1", "2"}

ToTokens == {"0", "2", "3"}

\* the command lines of the model
CommandLines ==
  {<<>>, <<"help">>, <<"--help">>, <<"--all">>, <<"bogus">>, <<"list">>,
   <<"translations">>, <<"fetch">>, <<"fetch", "--path", "/chapters/1">>,
   <<"download">>, <<"download", "--all">>, <<"download", "--help">>,
   <<"download", "--surah">>, <<"download", "-s", "2", "--all">>,
   <<"download", "--from", "2">>, <<"download", "--to", "2">>,
   <<"download", "--base-url">>, <<"download", "--surah", "1", "--output">>,
   <<"download", "--output", "./out">>}
    \cup {<<"download", "--surah", t>> : t \in SurahTokens}
    \cup {<<"download", "--from", a, "--to", b>> : a \in FromTokens, b \in ToTokens}

MainInit ==
  /\ argv \in CommandLines
  /\ options = DefaultOptions
  /\ exitCode = 0
  /\ message = ""
  /\ mode = "none"
  /\ surahId = 0
  /\ startFrom = 1
  /\ endAt = SurahCount
  /\ pc = "main"
  /\ chaptersData = NoChaptersData
  /\ chapters = <<>>
  /\ idx = 0
  /\ chapter = NoChapter
  /\ fetchNo = 0
  /\ inflight = {}
  /\ timer = 0
  /\ resp = NoResponses
  /\ surahData = NoDocument
  /\ files = <<>>
  /\ error = ""
  /\ reported = <<>>
  /\ saved = <<>>
  /\ attempted = <<>>
  /\ requests = <<>>
  /\ listFetches = 0
  /\ faults = <<>>

MainNext ==
  \/ main
  \/ Next
  \/ ListPrinted
  \/ fetchOther
  \/ OtherResolved
  \/ OtherRejected
  \/ mainCatches
  \/ mainReturns

MainSpec == MainInit /\ [][MainNext]_vars

(***************************************************************************)
(* The merge on its own: buildSurahData for one chapter, suspended at its  *)
(* last sleep(100) with five responses drawn from the shapes the API can   *)
(* send (null body, no verses, arrays of every length up to MaxVerses,     *)
(* verses with absent fields, translation lists in every order).           *)
(***************************************************************************)
MergeChapter == Chapter(2)

\* answers of a text endpoint: every length, and a verse without its text
TextReplies(field, c) ==
  {NullJson, NoVerses}
    \cup {WithVerses(TextVerses(field, c, k)) : k \in 0..MaxVerses}
    \cup {WithVerses(<<TextVerse(field, c, 1, t)>>) : t \in {Undefined, ""}}

\* fewer answers of a text endpoint: complete, one verse without text, none, null
FewTextReplies(field, c) ==
  {NullJson, NoVerses, WithVerses(TextVerses(field, c, MaxVerses)),
   WithVerses(<<TextVerse(field, c, 1, Undefined)>>)}

TranslationEntries ==
  {Translation(TRANSLATION_ID_ENGLISH, "Saheeh"),
   Translation(TRANSLATION_ID_INDONESIAN, "Kemenag"),
   Translation(OtherResourceId, "Other"),
   Translation(TRANSLATION_ID_ENGLISH, Undefined)}

\* translation lists of at most two entries, in every order, with repetitions
TranslationLists ==
  {<<>>} \cup {<<a>> : a \in TranslationEntries}
    \cup {<<a, b>> : a \in TranslationEntries, b \in TranslationEntries}

\* the shapes of the primary verse at position n
EnVerseShapes(c, n) ==
  LET v == WordVerse(c, n, "english")
  IN {[v EXCEPT !.translations = tl] : tl \in TranslationLists}
       \cup {[v EXCEPT !.has_translations = FALSE, !.translations = <<>>],
             [v EXCEPT !.has_words = FALSE, !.words = <<>>],
             [v EXCEPT !.words = RaggedTokens("english")],
             [v EXCEPT !.words = Tokens("indonesian")],
             [v EXCEPT !.verse_key = VerseKey(c, n + 1)],
             [v EXCEPT !.verse_key = VerseKey(c + 1, n)]}

\* verse arrays of length k: complete verses, at most one of them in another shape
EnVerseArrays(c, k) ==
  {WordVerses(c, k, "english")}
    \cup UNION {{[WordVerses(c, k, "english") EXCEPT ![n] = v] : v \in EnVerseShapes(c, n)} :
                  n \in 1..k}

EnReplies(c) ==
  {NullJson, NoVerses} \cup {WithVerses(a) : a \in UNION {EnVerseArrays(c, k) : k \in 0..MaxVerses}}

\* the verses_id answer: the word translations are Indonesian, or the API fell back
\* to English ones, or a verse has no words
IdVerseArrays(c, k) ==
  {WordVerses(c, k, "indonesian")}
    \cup (IF k = 1
          THEN {WordVerses(c, k, "english"),
                WordVerses(c, k, "Indonesian"),
                [WordVerses(c, k, "indonesian") EXCEPT ![1].words = RaggedTokens("indonesian")],
                [WordVerses(c, k, "indonesian") EXCEPT ![1].has_words = FALSE, ![1].words = <<>>]}
          ELSE {})

IdReplies(c) ==
  {NullJson, NoVerses} \cup {WithVerses(a) : a \in UNION {IdVerseArrays(c, k) : k \in 0..MaxVerses}}

MergeInit ==
  /\ mode = "single"
  /\ surahId = MergeChapter.id
  /\ startFrom = 1
  /\ endAt = SurahCount
  /\ pc = "sleep"
  /\ chaptersData = ChaptersData(CanonicalListing)
  /\ chapters = <<>>
  /\ idx = 0
  /\ chapter = MergeChapter
  /\ fetchNo = FetchCount
  /\ inflight = {}
  /\ timer = FetchDelay
  /\ \E u \in TextReplies("text_uthmani", MergeChapter.id),
        i \in FewTextReplies("text_imlaei", MergeChapter.id),
        t \in FewTextReplies("text_uthmani_tajweed", MergeChapter.id),
        en \in EnReplies(MergeChapter.id),
        id \in IdReplies(MergeChapter.id) :
       resp = [e \in Range(Endpoints) |->
                 IF e = "uthmani" THEN u
                 ELSE IF e = "imlaei" THEN i
                 ELSE IF e = "uthmani_tajweed" THEN t
                 ELSE IF e = "verses_en" THEN en ELSE id]
  /\ surahData = NoDocument
  /\ files = <<>>
  /\ error = ""
  /\ reported = <<>>
  /\ saved = <<>>
  /\ attempted = <<MergeChapter.id>>
  /\ requests = Endpoints
  /\ listFetches = 1
  /\ faults = <<>>
  /\ CalledDirectly

MergeNext == BuildDocument

MergeSpec == MergeInit /\ [][MergeNext]_vars

(***************************************************************************)
(* The write of a chapter with any id and name: buildSurahData has         *)
(* returned in downloadSurah or in downloadAllSurahs.                      *)
(***************************************************************************)
NameIds == {1, 14, SurahCount}

NamedChapters ==
  {[id |-> i, name_simple |-> n, verses_count |-> MaxVerses] :
     i \in NameIds, n \in BoundedNames \cup {AlFatihah}}

NameInit ==
  /\ mode \in {"single", "batch"}
  /\ chapter \in NamedChapters
  /\ surahId = (IF mode = "single" THEN chapter.id ELSE 0)
  /\ startFrom = 1
  /\ endAt = SurahCount
  /\ pc = "built"
  /\ chaptersData = ChaptersData(<<chapter>>)
  /\ chapters = (IF mode = "batch" THEN <<chapter>> ELSE <<>>)
  /\ idx = (IF mode = "batch" THEN 1 ELSE 0)
  /\ fetchNo = FetchCount
  /\ inflight = {}
  /\ timer = 0
  /\ resp = [e \in Range(Endpoints) |-> CanonicalReply(e, chapter)]
  /\ surahData = SurahDocument(chapter, resp)
  /\ files = <<>>
  /\ error = ""
  /\ reported = <<>>
  /\ saved = <<>>
  /\ attempted = <<chapter.id>>
  /\ requests = Endpoints
  /\ listFetches = 1
  /\ faults = <<>>
  /\ CalledDirectly

NameNext == SaveSurah

NameSpec == NameInit /\ [][NameNext]_vars

(***************************************************************************)
(* Properties of the download run.                                         *)
(***************************************************************************)
Ids(chs) == [i \in 1..Len(chs) |-> chs[i].id]

\* /chapters has resolved with a chapters array
Listed == chaptersData.json = "object" /\ chaptersData.has_chapters

AllReceived == \A e \in Range(Endpoints) : resp[e].json = "object"

\* every fetch has resolved, with an object or with null
AllOrNull == \A e \in Range(Endpoints) : resp[e].json \in {"object", "null"}

HasFile(id) == Filename(Chapter(id)) \in DOMAIN files

\* C1: in downloadAllSurahs a failure of buildSurahData or of the write for one
\* chapter is printed and not raised: once the listing is there the call never
\* rejects, and when it returns every selected chapter has been attempted, the
\* failed ones are exactly the reported ones, and every chapter whose processing
\* met no failure has its file.
BatchFaultIsolation ==
  (mode = "batch" /\ Listed) =>
    /\ pc # "raised"
    /\ error = ""
    /\ reported = faults
    /\ pc = "done" =>
         /\ attempted = Ids(chapters)
         /\ \A i \in 1..Len(chapters) :
              chapters[i].id \notin Range(faults) => HasFile(chapters[i].id)

\* a range of three chapters, the middle one failed, the first and third saved
MiddleChapterFailed ==
  /\ mode = "batch" /\ pc = "done" /\ Len(chapters) = 3
  /\ reported = <<chapters[2].id>>
  /\ HasFile(chapters[1].id) /\ HasFile(chapters[3].id) /\ ~HasFile(chapters[2].id)

\* C2: a file is written only in the step that follows the return of
\* buildSurahData, with all five responses received, and what is written is the
\* complete document of that chapter; a step in which a fetch, the merge or the
\* write fails leaves the output directory as it was, so that the files are
\* those of the saved chapters only.
WriteOnlyWhenBuilt ==
  files' # files =>
    /\ pc = "built"
    /\ requests = Endpoints
    /\ AllReceived
    /\ files' = WriteFile(files, Filename(chapter), SurahDocument(chapter, resp))
    /\ saved' = Append(saved, chapter.id)

FailureWritesNothing == faults' # faults => files' = files

FilesAreSaved == DOMAIN files = {Filename(Chapter(id)) : id \in Range(saved)}

NoPartialWrite ==
  /\ []FilesAreSaved
  /\ [][WriteOnlyWhenBuilt /\ FailureWritesNothing]_vars

\* a single download failed during the aggregation and left no file
FailedSurahLeftNoFile ==
  /\ mode = "single" /\ pc = "raised" /\ error = "http"
  /\ fetchNo = FetchCount /\ faults = <<surahId>>
  /\ files = <<>>

(***************************************************************************)
(* Properties of the merge.                                                *)
(***************************************************************************)
\* buildSurahData has left its last sleep: it returned a document or threw
Merged == pc \in {"built", "raised"} /\ fetchNo = FetchCount /\ AllOrNull

PrimaryVerses == VersesOrEmpty(resp["verses_en"])

\* the fragment of a text response at index n is absent
Absent(e, n) == n > Len(VersesOrEmpty(resp[e]))

\* C3: with five fetches that succeeded, buildSurahData returns, without
\* throwing, as many ayahs as the verses_en response has verses, whatever the
\* other four responses carry; where a text fragment is absent the text is ''
\* and where the verses_id verse is absent the words are those of the fallback.
MergeNeverThrows ==
  Merged =>
    /\ pc = "built"
    /\ error = ""
    /\ Len(surahData.ayahs) = Len(PrimaryVerses)
    /\ \A n \in 1..Len(surahData.ayahs) :
         /\ Absent("uthmani", n) => surahData.ayahs[n].text_arabic_uthmani = ""
         /\ Absent("imlaei", n) => surahData.ayahs[n].text_arabic_simple = ""
         /\ Absent("uthmani_tajweed", n) => surahData.ayahs[n].text_arabic_tajweed = ""
         /\ Absent("verses_id", n) =>
              Len(surahData.ayahs[n].words.id) = Len(surahData.ayahs[n].words.en)

\* C4 as stated: the ayah at position n of the document of chapter c has the
\* verse_key "c:n", for n = 1..number of ayahs.
VerseKeysDerived ==
  pc = "built" =>
    \A n \in 1..Len(surahData.ayahs) :
      surahData.ayahs[n].verse_key = VerseKey(chapter.id, n)

\* C4, amended: the verse_key of the ayah at position n is the verse_key of the
\* n-th verse of the verses_en response, unchanged; it is "c:n" at every position
\* if and only if the response numbers its verses that way.
VerseKeysCopied ==
  pc = "built" =>
    /\ \A n \in 1..Len(surahData.ayahs) :
         surahData.ayahs[n].verse_key = PrimaryVerses[n].verse_key
    /\ (\A n \in 1..Len(PrimaryVerses) : PrimaryVerses[n].verse_key = VerseKey(chapter.id, n))
         <=> (\A n \in 1..Len(surahData.ayahs) :
                surahData.ayahs[n].verse_key = VerseKey(chapter.id, n))

\* a document whose last ayah carries the key of another position
ForeignVerseKey ==
  /\ pc = "built"
  /\ Len(surahData.ayahs) = MaxVerses
  /\ surahData.ayahs[MaxVerses].verse_key = VerseKey(chapter.id, MaxVerses + 1)

\* positions of the entries of a translation list with a resource id
Matches(ts, rid) == {k \in 1..Len(ts) : ts[k].resource_id = rid}

\* the text a translation list gives for a resource id: that of its first entry
\* with the id ('' when the entry has no text), '' when it has no such entry
ExpectedTranslation(ts, rid) ==
  IF Matches(ts, rid) = {} THEN ""
  ELSE LET first == CHOOSE k \in Matches(ts, rid) : \A j \in Matches(ts, rid) : k <= j
       IN IF ts[first].text = Undefined THEN "" ELSE ts[first].text

\* C10: translations.en of an ayah is the text of the entry with resource id 20
\* of the primary verse's translation list and translations.id that of the entry
\* with resource id 33; without such an entry, or without a list, it is ''.
TranslationsExtracted ==
  pc = "built" =>
    \A n \in 1..Len(surahData.ayahs) :
      LET ts == IF PrimaryVerses[n].has_translations THEN PrimaryVerses[n].translations
                ELSE <<>>
      IN /\ surahData.ayahs[n].translations.en = ExpectedTranslation(ts, TRANSLATION_ID_ENGLISH)
         /\ surahData.ayahs[n].translations.id = ExpectedTranslation(ts, TRANSLATION_ID_INDONESIAN)

\* the Indonesian entry comes first and there is no English one; the next verse
\* has both
IndonesianOnly ==
  /\ pc = "built"
  /\ Len(surahData.ayahs) = 2
  /\ PrimaryVerses[1].translations =
       <<Translation(TRANSLATION_ID_INDONESIAN, "Kemenag"), Translation(OtherResourceId, "Other")>>
  /\ surahData.ayahs[1].translations = [en |-> "", id |-> "Kemenag"]
  /\ surahData.ayahs[2].translations = [en |-> "Saheeh", id |-> "Kemenag"]

(***************************************************************************)
(* Properties of the request schedule.                                     *)
(***************************************************************************)
\* every fetch of the current buildSurahData call up to number n has settled
SettledUpTo(n) == \A k \in 1..n : resp[Endpoints[k]].json \in {"object", "null"}

OneRequestInFlight ==
  /\ Cardinality(inflight) <= 1
  /\ inflight = IF pc = "chapters" THEN {ChaptersRequest}
                ELSE IF pc = "await" THEN {Request(fetchNo, chapter)} ELSE {}
  /\ Len(requests) = fetchNo
  /\ requests = SubSeq(Endpoints, 1, fetchNo)

\* fetch number n > 1 is issued from the sleep that follows fetch n - 1
LaterFetchAfterSleep ==
  (fetchNo' > 1 /\ fetchNo' # fetchNo) =>
    /\ pc = "sleep" /\ timer = FetchDelay
    /\ inflight = {}
    /\ fetchNo' = fetchNo + 1
    /\ SettledUpTo(fetchNo)
    /\ chapter' = chapter

\* buildSurahData is called for a chapter when all chapters before it are done with
FirstFetchAfterPrevious ==
  Len(attempted') > Len(attempted) =>
    /\ attempted' = Append(attempted, chapter'.id)
    /\ Len(saved') + Len(reported') = Len(attempted)
    /\ inflight' = {Request(1, chapter')}

\* C5: at most one HTTP request is in flight at any time; the five fetches of a
\* chapter are issued in the order Uthmani, Imlaei, Tajweed, verses "en", verses
\* "id", each after the one before has settled and sleep(100) has elapsed; in a
\* batch the first fetch of a chapter is issued only when every chapter before
\* it has been saved or has failed.
SerialRequests ==
  /\ []OneRequestInFlight
  /\ [][LaterFetchAfterSleep /\ FirstFetchAfterPrevious]_vars

\* the last fetch of the second chapter of a batch is in flight
SecondChapterLastFetch ==
  /\ mode = "batch" /\ Len(attempted) = 2 /\ Len(saved) = 1
  /\ pc = "await" /\ fetchNo = FetchCount
  /\ inflight = {Request(FetchCount, chapter)}

\* C6: with the listing of the chapters 1..114, downloadSurah selects the
\* chapter with the requested id for every id in 1..114, and for every other id
\* fails with "not found" before any verse request and without a file.
ResolveInCanonicalListing ==
  (mode = "single" /\ Listed /\ chaptersData.chapters = CanonicalListing) =>
    IF surahId \in 1..SurahCount
    THEN /\ chapter.id = surahId
         /\ attempted = <<surahId>>
         /\ error # "not_found"
    ELSE /\ pc = "raised" /\ error = "not_found"
         /\ attempted = <<>> /\ requests = <<>> /\ inflight = {}
         /\ files = <<>>

\* the last surah has been resolved and downloaded
LastSurahDownloaded ==
  /\ mode = "single" /\ chaptersData.chapters = CanonicalListing
  /\ surahId = SurahCount /\ pc = "done"
  /\ surahData.surah.id = SurahCount /\ HasFile(SurahCount)

InInterval(c) == startFrom <= c.id /\ c.id <= endAt

\* the ids of the listing's entries in [startFrom, endAt], in listing order
SelectedIds == Ids(SelectSeq(chaptersData.chapters, InInterval))

StrictlyAscending(s) == \A i \in 1..(Len(s) - 1) : s[i] < s[i + 1]

\* C7 as stated: the listing is fetched once and the chapters processed are the
\* listed ones with an id in [from, to], each once, in ascending id order.
RangeInAscendingOrder ==
  (mode = "batch" /\ pc = "done") =>
    /\ listFetches = 1
    /\ Range(attempted) = Range(SelectedIds)
    /\ StrictlyAscending(attempted)

\* C7, amended: the listing is fetched once and the entries processed are the
\* listing's entries with an id in [from, to], each entry once, in the order
\* the listing gives them, which is ascending when the listing is ascending.
RangeInListingOrder ==
  mode = "batch" =>
    /\ listFetches = IF pc = "start" THEN 0 ELSE 1
    /\ Listed =>
         LET selected == SelectedIds
         IN /\ Len(attempted) <= Len(selected)
            /\ attempted = SubSeq(selected, 1, Len(attempted))
            /\ pc = "done" => attempted = selected
            /\ StrictlyAscending(Ids(chaptersData.chapters)) => StrictlyAscending(attempted)

\* a listing that is not sorted is processed as it comes
ShuffledRangeDone ==
  /\ mode = "batch" /\ pc = "done"
  /\ chaptersData.chapters = ShuffledListing
  /\ attempted = <<3, 1, 2>>

\* C8: between two consecutive chapters of a batch there is the sleep of 500 ms,
\* whether the earlier chapter was saved or failed: buildSurahData is called for
\* a second or later chapter only from that sleep.
DelayBetweenChapters ==
  [][(Len(attempted') > Len(attempted) /\ Len(attempted) >= 1)
       => (pc = "pause" /\ timer = SurahDelay)]_vars

(***************************************************************************)
(* Progress.  Node runs the continuation of every settled promise and      *)
(* every expired timer, and every fetch is assumed to settle: a step that  *)
(* is possible is eventually taken.                                        *)
(***************************************************************************)
LiveSpec == Spec /\ WF_vars(Next)

BatchFinished ==
  /\ pc = "done"
  /\ attempted = Ids(chapters)
  /\ Len(saved) + Len(reported) = Len(chapters)

\* C9 as stated: a ranged batch eventually attempts every chapter of the range
\* and ends with the completion report.
BatchCompletes == (mode = "batch") ~> BatchFinished

\* C9, amended: once /chapters has resolved with a chapters array, a ranged
\* batch eventually attempts every chapter of the range and ends with the
\* completion report, however many chapters fail.
ListedBatchCompletes == (mode = "batch" /\ Listed) ~> BatchFinished

\* a batch in which every chapter failed has ended with the completion report
AllChaptersFailed ==
  /\ mode = "batch" /\ pc = "done"
  /\ Len(chapters) = MaxRange
  /\ reported = Ids(chapters)
  /\ files = <<>>

(***************************************************************************)
(* Properties of the file name.                                            *)
(***************************************************************************)
\* a character that is alphanumeric once lower-cased
Alnum(c) == c \in Range(LowerCase) \cup Range(UpperCase) \cup Range(DigitChars)

\* the lower-case form of a letter or digit
Lowered(c) ==
  IF \E i \in 1..Len(UpperCase) : UpperCase[i] = c
  THEN LowerCase[CHOOSE i \in 1..Len(UpperCase) : UpperCase[i] = c]
  ELSE c

\* the slug, told from the name: its letters and digits lower-cased, in order,
\* with one hyphen wherever other characters stood between two of them
RECURSIVE SlugFrom(_, _, _)
SlugFrom(name, i, gap) ==
  IF i > Len(name) THEN <<>>
  ELSE IF Alnum(name[i])
       THEN (IF gap THEN <<"-">> ELSE <<>>) \o <<Lowered(name[i])>>
              \o SlugFrom(name, i + 1, FALSE)
       ELSE SlugFrom(name, i + 1, gap \/ \E j \in 1..(i - 1) : Alnum(name[j]))

\* the three digits of an id below 1000
ThreeDigits(id) ==
  <<DigitChars[(id \div 100) + 1], DigitChars[((id \div 10) % 10) + 1],
    DigitChars[(id % 10) + 1]>>

ExpectedFilename(id, name) ==
  ThreeDigits(id) \o <<"-">> \o SlugFrom(name, 1, FALSE) \o <<".", "j", "s", "o", "n">>

AlFatihahFile ==
  <<"0", "0", "1", "-", "a", "l", "-", "f", "a", "t", "i", "h", "a", "h",
    ".", "j", "s", "o", "n">>

\* a slug has only [a-z0-9-], no two hyphens in a row, none at either end
WellFormedSlug(t) ==
  /\ \A i \in 1..Len(t) : t[i] \in Range(LowerCase) \cup Range(DigitChars) \cup {"-"}
  /\ \A i \in 1..(Len(t) - 1) : ~(t[i] = "-" /\ t[i + 1] = "-")
  /\ t # <<>> => (t[1] # "-" /\ t[Len(t)] # "-")

\* C11: the file written for a chapter is named by the id padded to three
\* digits, a hyphen, the slug of name_simple and ".json", in downloadSurah and
\* in downloadAllSurahs alike; the slug is the lower-cased name with every run
\* of other characters turned into one hyphen and none at either end, and
\* (1, "Al-Fatihah") gives "001-al-fatihah.json".
FilenameIsPaddedIdAndSlug ==
  /\ saved # <<>> =>
        /\ DOMAIN files = {ExpectedFilename(chapter.id, chapter.name_simple)}
        /\ (chapter.id = 1 /\ chapter.name_simple = AlFatihah)
              => DOMAIN files = {AlFatihahFile}
  /\ WellFormedSlug(sanitizeFilename(chapter.name_simple))

\* downloadAllSurahs has written the file of a chapter whose name has a run of
\* other characters between a capital and a digit
HyphenRunsSaved ==
  /\ mode = "batch" /\ pc = "pause"
  /\ chapter.id = 14
  /\ chapter.name_simple = <<"A", "-", " ", "7">>
  /\ DOMAIN files = {<<"0", "1", "4", "-", "a", "-", "7", ".", "j", "s", "o", "n">>}

(***************************************************************************)
(* Properties of a failed fetch.                                           *)
(***************************************************************************)
\* no endpoint is requested twice within one call of buildSurahData
NoEndpointTwice ==
  /\ Len(requests) <= FetchCount
  /\ \A i, j \in 1..Len(requests) : i # j => requests[i] # requests[j]

\* a fetch of the current call of buildSurahData is rejected in this step
FetchFails == pc = "await" /\ faults' # faults

\* the step of a rejected fetch: the call produces no document and issues no
\* further request for the chapter; downloadSurah rejects with the error,
\* downloadAllSurahs catches it and turns to the next entry of the range
FailureEndsAggregation ==
  FetchFails =>
    /\ surahData = NoDocument /\ surahData' = NoDocument
    /\ files' = files /\ saved' = saved
    /\ IF mode = "single"
       THEN /\ pc' = "raised" /\ error' = "http"
            /\ inflight' = {} /\ requests' = requests
       ELSE /\ reported' = Append(reported, chapter.id)
            /\ idx' = idx + 1
            /\ IF idx < Len(chapters)
               THEN /\ inflight' = {Request(1, chapters[idx + 1])}
                    /\ requests' = <<Endpoints[1]>>
               ELSE pc' = "done" /\ inflight' = {}

\* a call that rejected is over: nothing runs after it
RejectedIsFinal == pc = "raised" => UNCHANGED vars

\* C13: within one call of buildSurahData no endpoint is requested twice; when
\* the k-th fetch fails the later fetches are not issued, no document is
\* produced and the error reaches the caller of buildSurahData.
NoRetry ==
  /\ []NoEndpointTwice
  /\ [][FailureEndsAggregation /\ RejectedIsFinal]_vars

\* the third fetch of a single download failed: the last two were never issued
ThirdFetchFailed ==
  /\ mode = "single" /\ pc = "raised" /\ error = "http"
  /\ requests = SubSeq(Endpoints, 1, 3)
  /\ resp["uthmani"].json = "object" /\ resp["imlaei"].json = "object"
  /\ resp["uthmani_tajweed"].json = "pending"
  /\ surahData = NoDocument /\ files = <<>>

(***************************************************************************)
(* Properties of the word lists.                                           *)
(***************************************************************************)
SecondaryVerses == VersesOrEmpty(resp["verses_id"])

\* the word tokens a verse of a response carries
SourceWords(verse) ==
  LET ws == IF verse.has_words THEN verse.words ELSE <<>>
      isWord(w) == w.char_type_name = "word"
  IN SelectSeq(ws, isWord)

\* the translation of a word token names the language "indonesian"
NamesIndonesian(w) == w.translation.present /\ w.translation.language_name = "indonesian"

\* the tag of every words.id segment follows the token it was made from
TagsFollowSource(segments, source) ==
  /\ Len(segments) = Len(source)
  /\ \A k \in 1..Len(segments) :
       segments[k].translation.language = (IF NamesIndonesian(source[k]) THEN "id" ELSE "en")

\* C14 as stated: without a verses_id verse at index n the words.id list of
\* ayah n is identical to its words.en list; with one, a words.id segment is
\* tagged "id" if its translation's language name is "indonesian", else "en".
FallbackWordsIdentical ==
  pc = "built" =>
    \A n \in 1..Len(surahData.ayahs) :
      IF n > Len(SecondaryVerses)
      THEN surahData.ayahs[n].words.id = surahData.ayahs[n].words.en
      ELSE TagsFollowSource(surahData.ayahs[n].words.id, SourceWords(SecondaryVerses[n]))

\* the segments of two word lists agree in everything but the language tag
SameButTag(a, b) ==
  /\ Len(a) = Len(b)
  /\ \A k \in 1..Len(a) :
       /\ a[k].position = b[k].position
       /\ a[k].text_code = b[k].text_code
       /\ a[k].audio_url = b[k].audio_url
       /\ a[k].transliteration = b[k].transliteration
       /\ a[k].translation.text = b[k].translation.text

\* C14, amended: without a verses_id verse at index n the words.id list of ayah
\* n is made from the verses_en verse: the segments of words.en in the same
\* order with the same texts, each tagged "id" if the word's translation names
\* "indonesian" and "en" otherwise, hence identical to words.en when no word of
\* the verses_en verse names "indonesian"; with a verses_id verse, the tags
\* follow that verse's words in the same way.
FallbackWordsFromPrimary ==
  pc = "built" =>
    \A n \in 1..Len(surahData.ayahs) :
      LET ayah == surahData.ayahs[n]
          primary == SourceWords(PrimaryVerses[n])
      IN IF n > Len(SecondaryVerses)
         THEN /\ SameButTag(ayah.words.id, ayah.words.en)
              /\ TagsFollowSource(ayah.words.id, primary)
              /\ (\A k \in 1..Len(primary) : ~NamesIndonesian(primary[k]))
                    => ayah.words.id = ayah.words.en
         ELSE TagsFollowSource(ayah.words.id, SourceWords(SecondaryVerses[n]))

\* the verses_en verse was substituted and its word names "indonesian": the two
\* lists differ in the tag
FallbackTaggedId ==
  /\ pc = "built"
  /\ Len(surahData.ayahs) = 1 /\ SecondaryVerses = <<>>
  /\ Len(surahData.ayahs[1].words.en) = 1
  /\ surahData.ayahs[1].words.en[1].translation = [text |-> "w1-indonesian", language |-> "en"]
  /\ surahData.ayahs[1].words.id[1].translation = [text |-> "w1-indonesian", language |-> "id"]

(***************************************************************************)
(* Properties of main.                                                     *)
(***************************************************************************)
\* C12 as stated: the exit status is not 0 exactly when an error reached the
\* catch block of main, which printed it; every other path exits with 0.
ExitStatusByHandler ==
  pc = "exited" => (exitCode # 0 <=> message = "caught")

\* C12, amended: an error that reaches the catch block of main is printed and
\* the status is 1; an error thrown in main before the try block reaches no
\* handler, the runtime reports it and the status is 1 or, before Node 15, 0;
\* every other path, a batch with failed chapters among them, exits with 0.
ExitStatusByError ==
  pc = "exited" =>
    /\ exitCode \in {0, 1}
    /\ message = "caught" <=> error # ""
    /\ message = "caught" => exitCode = 1
    /\ message = "unhandled" => (mode = "none" /\ listFetches = 0 /\ error = "")
    /\ message \notin {"caught", "unhandled"} => exitCode = 0
    /\ (mode = "batch" /\ Listed) => exitCode = 0

\* --output without a value: mkdirSync(undefined) throws before the try block
UnhandledExit ==
  /\ pc = "exited"
  /\ argv = <<"download", "--surah", "1", "--output">>
  /\ message = "unhandled" /\ exitCode = 1
  /\ error = ""

\* the token that follows the first of the given flags on the command line
ValueOf(flags) ==
  LET i == CHOOSE k \in 1..Len(argv) :
             argv[k] \in flags /\ \A j \in 1..(k - 1) : argv[j] \notin flags
  IN IF i < Len(argv) THEN argv[i + 1] ELSE Undefined

Given(flags) == \E k \in 1..Len(argv) : argv[k] \in flags

\* --surah or -s stands on the command line with a value
SurahValueGiven == Given({"--surah", "-s"}) /\ ValueOf({"--surah", "-s"}) # Undefined

\* the download command has passed the switch of main
DownloadDispatched ==
  /\ argv # <<>> /\ argv[1] = "download"
  /\ ~Given({"--help", "-h", "--base-url", "--output"})
  /\ pc # "main" /\ message # "unhandled"

\* C15: with a --surah value the download command calls downloadSurah for that
\* id, which fails with "not found" for an id the listing lacks; without it and
\* with --all, --from or --to it calls downloadAllSurahs; with none of the four
\* flags it sends no request, writes no file and prints the line that asks for
\* --surah <id> or --all.
ModeFromFlags ==
  DownloadDispatched =>
    IF SurahValueGiven
    THEN /\ mode = "single"
         /\ surahId = ParseInt(ValueOf({"--surah", "-s"}))
         /\ (Listed /\ surahId \notin Range(Ids(chaptersData.chapters)))
               => error = "not_found"
    ELSE IF Given({"--all", "--from", "--to"})
    THEN mode = "batch"
    ELSE /\ mode = "none"
         /\ message = "specify_surah_or_all"
         /\ listFetches = 0 /\ requests = <<>> /\ files = <<>>

====
